---- MODULE Spec2Model ----
(***************************************************************************)
(* Model of qpageview's ImageCache (frescobaldi_app/qpageview/cache.py).   *)
(*                                                                         *)
(* The store is the nested dictionary                                      *)
(*     group -> ident -> sizekey -> tile -> ImageEntry                     *)
(* The group, ident and tile levels are functions whose DOMAIN is the set  *)
(* of keys present.  The sizekey level (keyd) is a sequence of             *)
(* [key, tiled] records in insertion order, because two of the methods     *)
(* run a stable sort over keyd.items() and so observe that order.          *)
(*                                                                         *)
(* time.time() does not decrease and may return the same value twice.      *)
(* Groups, idents and tiles are integers, so that the tuples the purge     *)
(* pass sorts always compare.  abs(1 - width / key.width) is kept as an    *)
(* exact fraction, which orders widths as the floats do for any width a    *)
(* rendering can have.  Reclaiming of groups by the WeakKeyDictionary is   *)
(* not part of Spec; SpecReclaim adds it.                                  *)
(***************************************************************************)
EXTENDS Integers, Sequences, FiniteSets, TLC

\* ImageCache.maxsize, set to the value of the specification's eviction
\* scenario instead of the 200M default.
maxsize == 1000

\* Bound of the model: the largest value time.time() takes.
MaxTime == 1

\* The pages the renderer draws, as <<group, ident>>: two pages of one
\* group and one page of another.
Pages == {<<1, 1>>, <<1, 2>>, <<2, 1>>}

\* key[2:] == (rotation, width, height): a page of 2 x 3 at a small and at a
\* large zoom, and the small one turned a quarter on a wider view.
SizeKeys == {<<0, 80, 120>>, <<0, 150, 225>>, <<1, 120, 80>>}

\* The renderings the renderer makes of a page: the first page is shown at
\* every size and rotation, the page of the other group at the small zoom in
\* both rotations, the remaining page at the small zoom only.
RenderedAt(p) ==
    IF p = <<1, 1>> THEN SizeKeys
    ELSE IF p = <<2, 1>> THEN {<<0, 80, 120>>, <<1, 120, 80>>}
    ELSE {<<0, 80, 120>>}

\* The tiles of a rendering: an image 150 wide is rendered in two tiles.
TilesOf(k) == IF k[2] >= 150 THEN {1, 2} ELSE {1}

\* The values of image.byteCount(): 400 for every image, and also 700 for a
\* tile of the large zoom.
ByteCountsOf(k) == IF k[2] >= 150 THEN {400, 700} ELSE {400}

\* The keys tileset() and closest() are asked for: the renderings above, other
\* sizes of them, and pages whose ident or whose group is not in the cache.
LookupPages == Pages \cup {<<2, 2>>, <<3, 1>>}
LookupSizeKeys == SizeKeys \cup {<<0, 85, 128>>, <<0, 120, 180>>, <<1, 100, 67>>}
LookupKeys ==
    { [group |-> p[1], ident |-> p[2], rotation |-> k[1], width |-> k[2], height |-> k[3]]
      : p \in LookupPages, k \in LookupSizeKeys }

VARIABLES
    cache,        \* self._cache
    currentsize,  \* self.currentsize
    now,          \* the last value time.time() returned
    last          \* the last call of clear, invalidate or addtile: its name,
                  \* its arguments and what its purge pass did

vars == <<cache, currentsize, now, last>>

-----------------------------------------------------------------------------
(* dictionaries *)

EmptyDict == [x \in {} |-> x]

DictSet(d, k, v) == [x \in (DOMAIN d) \cup {k} |-> IF x = k THEN v ELSE d[x]]

DictDel(d, k) == [x \in (DOMAIN d) \ {k} |-> d[x]]

\* position of sizekey k in the ordered dictionary keyd, 0 when absent
KeydPos(keyd, k) ==
    IF \E n \in 1..Len(keyd) : keyd[n].key = k
    THEN CHOOSE n \in 1..Len(keyd) : keyd[n].key = k
    ELSE 0

\* del keyd[k]
KeydDel(keyd, k) ==
    LET n == KeydPos(keyd, k)
    IN  SubSeq(keyd, 1, n - 1) \o SubSeq(keyd, n + 1, Len(keyd))

\* keyd.setdefault(k, {}): an absent key is appended, a present one stays
KeydSetDefault(keyd, k) ==
    IF KeydPos(keyd, k) = 0
    THEN Append(keyd, [key |-> k, tiled |-> EmptyDict])
    ELSE keyd

Key(g, i, k) == [group |-> g, ident |-> i, rotation |-> k[1], width |-> k[2], height |-> k[3]]

\* key[2:]
SizeKeyOf(key) == <<key.rotation, key.width, key.height>>

ImageEntry(b, t) == [bcount |-> b, time |-> t, replace |-> FALSE]

-----------------------------------------------------------------------------
(* tileset *)

tileset(c, key) ==
    IF /\ key.group \in DOMAIN c
       /\ key.ident \in DOMAIN c[key.group]
       /\ KeydPos(c[key.group][key.ident], SizeKeyOf(key)) # 0
    THEN LET keyd == c[key.group][key.ident]
         IN  keyd[KeydPos(keyd, SizeKeyOf(key))].tiled
    ELSE EmptyDict

-----------------------------------------------------------------------------
(* addtile *)

\* a store with d.setdefault(tile, e): an entry already there stays
StoreEntry_keep(c, key, tile, e) ==
    LET g == key.group
        i == key.ident
        identd == IF g \in DOMAIN c THEN c[g] ELSE EmptyDict
        keyd0 == IF i \in DOMAIN identd THEN identd[i] ELSE <<>>
        keyd == KeydSetDefault(keyd0, SizeKeyOf(key))
        n == KeydPos(keyd, SizeKeyOf(key))
        keyd1 == IF tile \in DOMAIN keyd[n].tiled THEN keyd
                 ELSE [keyd EXCEPT ![n].tiled = DictSet(keyd[n].tiled, tile, e)]
    IN  DictSet(c, g, DictSet(identd, i, keyd1))

\* a store that takes the replace flag off every tile of the sizekey
StoreEntry_refresh(c, key, tile, e) ==
    LET g == key.group
        i == key.ident
        identd == IF g \in DOMAIN c THEN c[g] ELSE EmptyDict
        keyd0 == IF i \in DOMAIN identd THEN identd[i] ELSE <<>>
        keyd == KeydSetDefault(keyd0, SizeKeyOf(key))
        n == KeydPos(keyd, SizeKeyOf(key))
        tiled == DictSet(keyd[n].tiled, tile, e)
        keyd1 == [keyd EXCEPT ![n].tiled =
                    [t \in DOMAIN tiled |-> [tiled[t] EXCEPT !.replace = FALSE]]]
    IN  DictSet(c, g, DictSet(identd, i, keyd1))

\* d = self._cache.setdefault(group, {}).setdefault(ident, {}).setdefault(key[2:], {})
\* followed by d[tile] = e
StoreEntry(c, key, tile, e) ==
    LET g == key.group
        i == key.ident
        identd == IF g \in DOMAIN c THEN c[g] ELSE EmptyDict
        keyd0 == IF i \in DOMAIN identd THEN identd[i] ELSE <<>>
        keyd == KeydSetDefault(keyd0, SizeKeyOf(key))
        n == KeydPos(keyd, SizeKeyOf(key))
        keyd1 == [keyd EXCEPT ![n].tiled = DictSet(keyd[n].tiled, tile, e)]
    IN  DictSet(c, g, DictSet(identd, i, keyd1))

\* a stable sort on key[2], the height
RECURSIVE InsertByHeight(_, _)
InsertByHeight(s, x) ==
    IF s = <<>> THEN <<x>>
    ELSE IF Head(s).key[3] <= x.key[3]
         THEN <<Head(s)>> \o InsertByHeight(Tail(s), x)
         ELSE <<x>> \o s

\* sorted(keyd.items(), key=lambda i: i[0][1]): a stable sort on key[1]
RECURSIVE InsertByWidth(_, _)
InsertByWidth(s, x) ==
    IF s = <<>> THEN <<x>>
    ELSE IF Head(s).key[2] <= x.key[2]
         THEN <<Head(s)>> \o InsertByWidth(Tail(s), x)
         ELSE <<x>> \o s

RECURSIVE SortedKeyd(_)
SortedKeyd(keyd) ==
    IF keyd = <<>> THEN <<>>
    ELSE InsertByWidth(SortedKeyd(SubSeq(keyd, 1, Len(keyd) - 1)), keyd[Len(keyd)])

\* the tuple (entry.time, entry.bcount, group, ident, key, tile), flattened
Item(g, i, k, t, e) == <<e.time, e.bcount, g, i, k[1], k[2], k[3], t>>

ItemsOf(g, i, kds) ==
    UNION { { Item(g, i, kds[n].key, t, kds[n].tiled[t]) : t \in DOMAIN kds[n].tiled }
            : n \in 1..Len(kds) }

\* ...[1:] of every page
RestItems(c) ==
    UNION { UNION { ItemsOf(g, i, Tail(SortedKeyd(c[g][i]))) : i \in DOMAIN c[g] }
            : g \in DOMAIN c }

\* ...[:1] of every page
FirstItems(c) ==
    UNION { UNION { ItemsOf(g, i, SubSeq(SortedKeyd(c[g][i]), 1, 1)) : i \in DOMAIN c[g] }
            : g \in DOMAIN c }

\* tuple comparison
RECURSIVE TupleLess(_, _)
TupleLess(a, b) ==
    IF a = <<>> \/ b = <<>> THEN a = <<>> /\ b # <<>>
    ELSE IF Head(a) # Head(b) THEN Head(a) < Head(b)
         ELSE TupleLess(Tail(a), Tail(b))

RECURSIVE Sorted(_)
Sorted(S) ==
    IF S = {} THEN <<>>
    ELSE LET m == CHOOSE x \in S : \A y \in S \ {x} : TupleLess(x, y)
         IN  <<m>> \o Sorted(S \ {m})

\* the list left in the order it was built in
Reversed_none(s) == s

Reversed(s) == [n \in 1..Len(s) |-> s[Len(s) + 1 - n]]

\* one list of all entries, without the two buckets
PurgeItems_flat(c) == Reversed(Sorted(RestItems(c) \cup FirstItems(c)))

\* the items of the smallest renderings put first instead of last
PurgeItems_swapped(c) == Reversed(Sorted(FirstItems(c)) \o Sorted(RestItems(c)))

\* items as built at lines 114-130
PurgeItems(c) == Reversed(Sorted(RestItems(c)) \o Sorted(FirstItems(c)))

\* a counting loop that tests the size before it adds the item
RECURSIVE CountLoop_late(_, _, _)
CountLoop_late(items, n, size) ==
    IF n > Len(items) THEN [taken |-> Len(items), size |-> size]
    ELSE IF size > maxsize THEN [taken |-> n, size |-> size + items[n][2]]
         ELSE CountLoop_late(items, n + 1, size + items[n][2])

\* the counting loop: the items it takes from the iterator and the
\* currentsize it leaves
RECURSIVE CountLoop(_, _, _)
CountLoop(items, n, size) ==
    IF n > Len(items) THEN [taken |-> Len(items), size |-> size]
    ELSE LET s == size + items[n][2]
         IN  IF s > maxsize THEN [taken |-> n, size |-> s]
             ELSE CountLoop(items, n + 1, s)

\* a delete that leaves the emptied dicts in place
DelTile_noclean(c, it) ==
    LET g == it[3]
        i == it[4]
        k == <<it[5], it[6], it[7]>>
        keyd == c[g][i]
        n == KeydPos(keyd, k)
    IN  [c EXCEPT ![g][i][n].tiled = DictDel(keyd[n].tiled, it[8])]

\* del self._cache[group][ident][key][tile], deleting empty dicts as well
DelTile(c, it) ==
    LET g == it[3]
        i == it[4]
        k == <<it[5], it[6], it[7]>>
        t == it[8]
        keyd == c[g][i]
        n == KeydPos(keyd, k)
        tiled == DictDel(keyd[n].tiled, t)
        keyd1 == IF DOMAIN tiled = {} THEN KeydDel(keyd, k)
                 ELSE [keyd EXCEPT ![n].tiled = tiled]
        identd == IF keyd1 = <<>> THEN DictDel(c[g], i) ELSE DictSet(c[g], i, keyd1)
    IN  IF DOMAIN identd = {} THEN DictDel(c, g) ELSE DictSet(c, g, identd)

\* the deleting loop over the items the counting loop left in the iterator
RECURSIVE DeleteLoop(_, _, _)
DeleteLoop(c, items, n) ==
    IF n > Len(items) THEN c
    ELSE DeleteLoop(DelTile(c, items[n]), items, n + 1)

\* a purge pass that keeps the item that ended the counting loop and does
\* not count it
Purge_uncounted(c) ==
    LET items == PurgeItems(c)
        cnt == CountLoop(items, 1, 0)
    IN  [cache |-> DeleteLoop(c, items, cnt.taken + 1),
         currentsize |-> IF cnt.size > maxsize THEN cnt.size - items[cnt.taken][2]
                         ELSE cnt.size]

Purge(c) ==
    LET items == PurgeItems(c)
        cnt == CountLoop(items, 1, 0)
    IN  [cache |-> DeleteLoop(c, items, cnt.taken + 1), currentsize |-> cnt.size]

\* an addtile that does not subtract the entry it replaces
OldBcount_kept(c, key, tile) == 0

OldBcount(c, key, tile) ==
    LET d == tileset(c, key)
    IN  IF tile \in DOMAIN d THEN d[tile].bcount ELSE 0

\* the test made before the replaced entry is subtracted
purgeneeded_early(c, size, key, tile) == size > maxsize

\* an addtile that never runs the purge pass
purgeneeded_never(c, size, key, tile) == FALSE

purgeneeded(c, size, key, tile) == size - OldBcount(c, key, tile) > maxsize

addtile(c, size, key, tile, b, t) ==
    LET size1 == size - OldBcount(c, key, tile)
        c1 == StoreEntry(c, key, tile, ImageEntry(b, t))
        size2 == size1 + b
    IN  IF ~purgeneeded(c, size, key, tile)
        THEN [cache |-> c1, currentsize |-> size2]
        ELSE Purge(c1)

-----------------------------------------------------------------------------
(* clear *)

\* a clear that forgets to reset currentsize
clear_keepsize(c, size) == [cache |-> EmptyDict, currentsize |-> size]

clear(c, size) == [cache |-> EmptyDict, currentsize |-> 0]

-----------------------------------------------------------------------------
(* invalidate *)

\* entry.replace = True for every entry of keyd
Replaced(keyd) ==
    [n \in 1..Len(keyd) |->
        [keyd[n] EXCEPT !.tiled = [t \in DOMAIN keyd[n].tiled |->
                                      [keyd[n].tiled[t] EXCEPT !.replace = TRUE]]]]

None == <<>>

\* an invalidate that takes the whole group of the page
invalidate_group(c, page) ==
    IF page # None
    THEN IF page[1] \in DOMAIN c /\ page[2] \in DOMAIN c[page[1]]
         THEN [c EXCEPT ![page[1]] = [i \in DOMAIN c[page[1]] |-> Replaced(c[page[1]][i])]]
         ELSE c
    ELSE [g \in DOMAIN c |-> [i \in DOMAIN c[g] |-> Replaced(c[g][i])]]

\* an invalidate that looks the page up with setdefault
invalidate_create(c, page) ==
    IF page # None
    THEN LET identd == IF page[1] \in DOMAIN c THEN c[page[1]] ELSE EmptyDict
             keyd == IF page[2] \in DOMAIN identd THEN identd[page[2]] ELSE <<>>
         IN  DictSet(c, page[1], DictSet(identd, page[2], Replaced(keyd)))
    ELSE [g \in DOMAIN c |-> [i \in DOMAIN c[g] |-> Replaced(c[g][i])]]

invalidate(c, page) ==
    IF page # None
    THEN IF page[1] \in DOMAIN c /\ page[2] \in DOMAIN c[page[1]]
         THEN [c EXCEPT ![page[1]][page[2]] = Replaced(c[page[1]][page[2]])]
         ELSE c
    ELSE [g \in DOMAIN c |-> [i \in DOMAIN c[g] |-> Replaced(c[g][i])]]

-----------------------------------------------------------------------------
(* closest *)

\* all() where the source has any()
AnyReplace_all(tiled) == \A t \in DOMAIN tiled : tiled[t].replace

AnyReplace(tiled) == \E t \in DOMAIN tiled : tiled[t].replace

\* the list comprehension without its test of the replace flags
RECURSIVE Suitable_stale(_, _)
Suitable_stale(keyd, key) ==
    IF keyd = <<>> THEN <<>>
    ELSE LET k == Head(keyd).key
             ts == Head(keyd).tiled
         IN  (IF k[1] = key.rotation /\ k[2] # key.width
              THEN <<(<<k[2], k[3], ts>>)>>
              ELSE <<>>) \o Suitable_stale(Tail(keyd), key)

\* the list comprehension at lines 162-166, in the order of keyd.items()
RECURSIVE Suitable(_, _)
Suitable(keyd, key) ==
    IF keyd = <<>> THEN <<>>
    ELSE LET k == Head(keyd).key
             ts == Head(keyd).tiled
         IN  (IF k[1] = key.rotation /\ k[2] # key.width /\ ~AnyReplace(ts)
              THEN <<(<<k[2], k[3], ts>>)>>
              ELSE <<>>) \o Suitable(Tail(keyd), key)

Abs(x) == IF x < 0 THEN -x ELSE x

\* the distance without abs()
Distance_signed(s, key) == <<key.width - s[1], key.width>>

\* abs(1 - s[0] / key.width) as the fraction <<numerator, denominator>>,
\* for a positive key.width
Distance(s, key) == <<Abs(key.width - s[1]), key.width>>

\* a <= b for two fractions with positive denominators
FracLeq(a, b) == a[1] * b[2] <= b[1] * a[2]

\* sorted(suitable, key=lambda s: abs(1 - s[0] / key.width)): a stable sort
RECURSIVE InsertByDistance(_, _, _)
InsertByDistance(s, x, key) ==
    IF s = <<>> THEN <<x>>
    ELSE IF FracLeq(Distance(Head(s), key), Distance(x, key))
         THEN <<Head(s)>> \o InsertByDistance(Tail(s), x, key)
         ELSE <<x>> \o s

RECURSIVE SortedByDistance(_, _)
SortedByDistance(s, key) ==
    IF s = <<>> THEN <<>>
    ELSE InsertByDistance(SortedByDistance(SubSeq(s, 1, Len(s) - 1), key), s[Len(s)], key)

closest(c, key) ==
    IF key.group \in DOMAIN c /\ key.ident \in DOMAIN c[key.group]
    THEN SortedByDistance(Suitable(c[key.group][key.ident], key), key)
    ELSE <<>>

-----------------------------------------------------------------------------
(* the cache as a set of entries *)

\* the <<group, ident, sizekey, tile>> that hold an entry
Positions(c) ==
    UNION { UNION { UNION { { <<g, i, c[g][i][n].key, t>> : t \in DOMAIN c[g][i][n].tiled }
                            : n \in 1..Len(c[g][i]) }
                    : i \in DOMAIN c[g] }
            : g \in DOMAIN c }

EntryAt(c, pos) == tileset(c, Key(pos[1], pos[2], pos[3]))[pos[4]]

RECURSIVE SumBcount(_, _)
SumBcount(c, S) ==
    IF S = {} THEN 0
    ELSE LET pos == CHOOSE x \in S : TRUE
         IN  EntryAt(c, pos).bcount + SumBcount(c, S \ {pos})

TotalBytes(c) == SumBcount(c, Positions(c))

\* the position an item of the purge list stands for
PosOf(it) == <<it[3], it[4], <<it[5], it[6], it[7]>>, it[8]>>

\* the positions of the smallest rendering of every page, as the purge
\* pass takes them
FirstPositions(c) == { PosOf(it) : it \in FirstItems(c) }

-----------------------------------------------------------------------------

Init ==
    /\ cache = EmptyDict
    /\ currentsize = 0
    /\ now = 0
    /\ last = [op |-> "init"]

Clear ==
    /\ cache' = clear(cache, currentsize).cache
    /\ currentsize' = clear(cache, currentsize).currentsize
    /\ last' = [op |-> "clear", size |-> currentsize]
    /\ UNCHANGED now

Invalidate ==
    \E page \in Pages \cup {None} :
        /\ cache' = invalidate(cache, page)
        /\ last' = [op |-> "invalidate"]
        /\ UNCHANGED <<currentsize, now>>

\* The value of image.byteCount() and the value of time.time() are inputs.
\* r is what addtile leaves, stored the cache as it is at line 106, gone the
\* entries the purge pass deleted and first those of the smallest renderings.
AddTile ==
    \E p \in Pages : \E k \in RenderedAt(p) :
    \E tile \in TilesOf(k), b \in ByteCountsOf(k), t \in {now, now + 1} :
        /\ t <= MaxTime
        /\ \E key \in {Key(p[1], p[2], k)} :
           \E r \in {addtile(cache, currentsize, key, tile, b, t)},
              purge \in {purgeneeded(cache, currentsize, key, tile)} :
           \E stored \in {IF purge THEN StoreEntry(cache, key, tile, ImageEntry(b, t))
                          ELSE r.cache} :
           \E gone \in {IF purge THEN Positions(stored) \ Positions(r.cache) ELSE {}} :
           \E first \in {IF gone # {} THEN FirstPositions(stored) ELSE {}} :
                /\ cache' = r.cache
                /\ currentsize' = r.currentsize
                /\ last' = [op |-> "addtile", key |-> key, tile |-> tile, bcount |-> b,
                            \* whether the purge pass ran
                            purge |-> purge,
                            \* whether it deleted an entry of a smallest rendering
                            lostfirst |-> gone \cap first # {},
                            \* whether it deleted an entry of another rendering
                            lostrest |-> gone \ first # {}]
        /\ now' = t

\* tileset(key), for any key: it reads self._cache and writes nothing; what
\* it returns is tileset(cache, key)
Tileset == UNCHANGED vars

\* closest(key), for any key: it reads self._cache and writes nothing; what
\* it returns is closest(cache, key)
Closest == UNCHANGED vars

Next ==
    \/ AddTile
    \/ Clear
    \/ Invalidate
    \/ Tileset
    \/ Closest

Spec == Init /\ [][Next]_vars

\* The WeakKeyDictionary drops a group, with every entry below it, once
\* nothing else refers to the group; no method of the cache runs and
\* currentsize stays as it is.  A key of that group seen later belongs to a
\* new group object.
Reclaim ==
    \E g \in DOMAIN cache :
        /\ cache' = DictDel(cache, g)
        /\ last' = [op |-> "reclaim", group |-> g]
        /\ UNCHANGED <<currentsize, now>>

NextReclaim ==
    \/ Next
    \/ Reclaim

SpecReclaim == Init /\ [][NextReclaim]_vars

-----------------------------------------------------------------------------
(* Properties *)

\* the cache as addtile has it once the new entry is stored, before the purge
StoredBy(c, l, t) == StoreEntry(c, l.key, l.tile, ImageEntry(l.bcount, t))

\* the largest bcount of a stored entry
MaxBcount(c) ==
    LET bcounts == { EntryAt(c, pos).bcount : pos \in Positions(c) }
    IN  IF bcounts = {} THEN 0 ELSE CHOOSE b \in bcounts : \A x \in bcounts : x <= b

\* C1: without a group being reclaimed, currentsize is the exact sum of the
\* byte counts of the entries in the store, after every operation.
CurrentsizeIsTotal == currentsize = TotalBytes(cache)

\* an addtile has replaced or added an entry and its purge pass has deleted
\* entries and kept others
PurgeCounted ==
    /\ last.op = "addtile"
    /\ last.lostfirst \/ last.lostrest
    /\ Cardinality(Positions(cache)) >= 2
    /\ \E pos \in Positions(cache) : EntryAt(cache, pos).bcount = 700

\* C2: after every operation no group, ident or sizekey of the store maps to
\* an empty mapping.
NoEmptyMapping ==
    \A g \in DOMAIN cache :
        /\ DOMAIN cache[g] # {}
        /\ \A i \in DOMAIN cache[g] :
            /\ cache[g][i] # <<>>
            /\ \A n \in 1..Len(cache[g][i]) : DOMAIN cache[g][i][n].tiled # {}

\* the purge pass has deleted the only entry of a group, the one the call
\* had just stored, and with it the sizekey, the ident and the group
GroupCleanedUp ==
    /\ last.op = "addtile"
    /\ last.purge
    /\ last.key.group \notin DOMAIN cache
    /\ cache # EmptyDict

SmallestAlwaysKept ==
    [][last'.op = "addtile" => FirstPositions(cache) \subseteq Positions(cache')]_vars

\* C4, amended: the entries of the smallest rendering (the least width) of
\* every page, taken once the new entry is stored, are still stored after
\* the addtile, provided these entries together are within maxsize.
SmallestKeptWithinMaxsize ==
    [][last'.op = "addtile" =>
        \A stored \in {StoredBy(cache, last', now')} :
        \A first \in {FirstPositions(stored)} :
            first \subseteq Positions(cache') \/ SumBcount(stored, first) > maxsize]_vars

\* a purge pass has deleted entries, none of them of a smallest rendering
PurgeSparedSmallest ==
    /\ last.op = "addtile"
    /\ last.lostrest
    /\ ~last.lostfirst
    /\ SumBcount(cache, FirstPositions(cache)) <= maxsize
    /\ Cardinality({<<pos[1], pos[2]>> : pos \in Positions(cache)}) >= 2

\* C5: a purge pass that deletes an entry of the smallest rendering of some
\* page leaves no entry of any other rendering of any page.
OthersGoFirst ==
    [][last'.op = "addtile" /\ last'.purge =>
        \A first \in {FirstPositions(StoredBy(cache, last', now'))},
           after \in {Positions(cache')} :
            first \ after # {} => after \subseteq first]_vars

\* a purge pass has deleted an entry of a smallest rendering, and entries
\* of other renderings with it
PurgeTookSmallest ==
    /\ last.op = "addtile"
    /\ last.lostfirst
    /\ last.lostrest
    /\ cache # EmptyDict

\* C6, as claimed: when the purge pass has run, currentsize is at most maxsize.
PurgeWithinMaxsize == last.op = "addtile" /\ last.purge => currentsize <= maxsize

\* C7: invalidate() sets the replace flag of every entry, invalidate(page) of
\* the entries of that page and of no other; neither adds or removes an
\* entry or changes one otherwise, currentsize stays, and tileset returns the
\* same tiles for every key.
Flagged(c, page) ==
    {pos \in Positions(c) : page = None \/ (pos[1] = page[1] /\ pos[2] = page[2])}

InvalidateMarksOnly ==
    [][last'.op = "invalidate" =>
        \A page \in Pages \cup {None} :
            cache' = invalidate(cache, page) =>
                \A before \in {Positions(cache)} :
                    /\ Positions(cache') = before
                    /\ \A pos \in before :
                        \A old \in {EntryAt(cache, pos)}, new \in {EntryAt(cache', pos)} :
                            /\ new.bcount = old.bcount
                            /\ new.time = old.time
                            /\ new.replace = (pos \in Flagged(cache, page) \/ old.replace)
                    /\ currentsize' = currentsize
                    /\ \A key \in LookupKeys :
                        DOMAIN tileset(cache', key) = DOMAIN tileset(cache, key)]_vars

\* an invalidate has left a page with every entry flagged beside a page of
\* the same group, and one of another group, with an entry not flagged
OnePageInvalidated ==
    /\ last.op = "invalidate"
    /\ \A pos \in Positions(cache) : pos[1] = 1 /\ pos[2] = 1 => EntryAt(cache, pos).replace
    /\ \E pos \in Positions(cache) : pos[1] = 1 /\ pos[2] = 1
    /\ \E pos \in Positions(cache) : pos[1] = 1 /\ pos[2] = 2 /\ ~EntryAt(cache, pos).replace
    /\ \E pos \in Positions(cache) : pos[1] = 2 /\ ~EntryAt(cache, pos).replace

\* C8: closest(key) returns exactly the sizekeys of the key's page that have
\* the rotation asked for, another width than the one asked for and no entry
\* with the replace flag, each once with its tileset.
Candidates(c, key) ==
    { pos[3] : pos \in { q \in Positions(c) :
                            /\ q[1] = key.group
                            /\ q[2] = key.ident
                            /\ q[3][1] = key.rotation
                            /\ q[3][2] # key.width } }

Fresh(c, key, k) ==
    \A pos \in Positions(c) :
        pos[1] = key.group /\ pos[2] = key.ident /\ pos[3] = k => ~EntryAt(c, pos).replace

ClosestExact ==
    \A key \in LookupKeys :
        LET ret == closest(cache, key)
            want == { k \in Candidates(cache, key) : Fresh(cache, key, k) }
        IN  /\ Len(ret) = Cardinality(want)
            /\ { <<ret[n][1], ret[n][2]>> : n \in 1..Len(ret) }
                 = { <<k[2], k[3]>> : k \in want }
            /\ \A n \in 1..Len(ret) :
                ret[n][3] = tileset(cache, Key(key.group, key.ident,
                                               <<key.rotation, ret[n][1], ret[n][2]>>))

\* closest returns one rendering of a page and leaves out another one of the
\* rotation asked for, of which one tile is flagged and the other is not
ClosestLeavesOutStale ==
    \E key \in LookupKeys :
        /\ Len(closest(cache, key)) = 1
        /\ \E k \in Candidates(cache, key) :
            /\ \E t \in DOMAIN tileset(cache, Key(key.group, key.ident, k)) :
                    tileset(cache, Key(key.group, key.ident, k))[t].replace
            /\ \E t \in DOMAIN tileset(cache, Key(key.group, key.ident, k)) :
                    ~tileset(cache, Key(key.group, key.ident, k))[t].replace

\* C9: closest(key) returns its candidates by non-decreasing
\* |candidate width - requested width|.
ClosestOrdered ==
    \A key \in LookupKeys :
        LET ret == closest(cache, key)
        IN  \A m, n \in 1..Len(ret) :
                m < n => Abs(ret[m][1] - key.width) <= Abs(ret[n][1] - key.width)

\* closest returns two renderings, the strictly closer one first, in the
\* order opposite to the one they were stored in
ClosestReordered ==
    \E key \in LookupKeys :
        LET ret == closest(cache, key)
            keyd == cache[key.group][key.ident]
        IN  /\ Len(ret) = 2
            /\ Abs(ret[1][1] - key.width) < Abs(ret[2][1] - key.width)
            /\ KeydPos(keyd, <<key.rotation, ret[2][1], ret[2][2]>>)
                 < KeydPos(keyd, <<key.rotation, ret[1][1], ret[1][2]>>)

\* C10: clear() leaves the empty store and currentsize 0; a second clear()
\* changes nothing; an addtile after clear() does what it does on a new
\* cache, without a purge pass.
ClearResets ==
    [][/\ last'.op = "clear" => cache' = EmptyDict /\ currentsize' = 0
       /\ last.op = "clear" /\ last'.op = "clear" =>
            cache' = cache /\ currentsize' = currentsize
       /\ last.op = "clear" /\ last'.op = "addtile" =>
            /\ ~last'.purge
            /\ Positions(cache') = {<<last'.key.group, last'.key.ident,
                                      SizeKeyOf(last'.key), last'.tile>>}
            /\ tileset(cache', last'.key)[last'.tile] = ImageEntry(last'.bcount, now')
            /\ currentsize' = last'.bcount]_vars

\* clear() has emptied a cache whose currentsize was over maxsize
ClearedFullCache ==
    /\ last.op = "clear"
    /\ last.size > maxsize
    /\ cache = EmptyDict
    /\ currentsize = 0

-----------------------------------------------------------------------------
(* lookups of what is not stored *)

\* the page <<g, i>> has entries
PageStored(c, g, i) == g \in DOMAIN c /\ i \in DOMAIN c[g]

SizeKeyStored(c, key) ==
    /\ PageStored(c, key.group, key.ident)
    /\ KeydPos(c[key.group][key.ident], SizeKeyOf(key)) # 0

\* what tileset, closest and invalidate make of what is not stored
AbsentIsEmpty ==
    /\ \A key \in LookupKeys :
        /\ ~SizeKeyStored(cache, key) => tileset(cache, key) = EmptyDict
        /\ ~PageStored(cache, key.group, key.ident) => closest(cache, key) = <<>>
    /\ \A page \in LookupPages :
        ~PageStored(cache, page[1], page[2]) => invalidate(cache, page) = cache

\* an invalidate of a page that is not stored changes nothing
InvalidateAbsentKeeps ==
    last'.op = "invalidate" =>
        /\ currentsize' = currentsize
        /\ \A page \in Pages :
            ~PageStored(cache, page[1], page[2]) /\ cache' = invalidate(cache, page)
                => cache' = cache

\* C11: tileset returns the empty dict for a key whose group, ident or
\* sizekey is not stored, closest returns the empty sequence for a key whose
\* group or ident is not stored, and invalidate(page) of a page whose group or
\* ident is not stored leaves the store and currentsize as they are; no
\* lookup adds or removes a node.
AbsenceChangesNothing == []AbsentIsEmpty /\ [][InvalidateAbsentKeeps]_vars

\* an invalidate has left a store as it was that holds entries not flagged,
\* in which a group is missing, an ident of a stored group is missing and a
\* sizekey of a stored page is missing
AbsentLookedUp ==
    /\ last.op = "invalidate"
    /\ \E pos \in Positions(cache) : ~EntryAt(cache, pos).replace
    /\ \E key \in LookupKeys : key.group \notin DOMAIN cache
    /\ \E key \in LookupKeys :
        key.group \in DOMAIN cache /\ ~PageStored(cache, key.group, key.ident)
    /\ \E key \in LookupKeys :
        PageStored(cache, key.group, key.ident) /\ ~SizeKeyStored(cache, key)

-----------------------------------------------------------------------------
(* addtile at a position that holds an entry *)

\* the position an addtile was called for
LastPos(l) == <<l.key.group, l.key.ident, SizeKeyOf(l.key), l.tile>>

\* the number of times sizekey k stands in keyd
KeydCount(keyd, k) == Cardinality({n \in 1..Len(keyd) : keyd[n].key = k})

\* C12: an addtile without purge pass at a position that holds an entry
\* leaves the same positions, the sizekey once in its page, at the position
\* the new entry (not flagged, its time not before the old entry's), every
\* other entry as it was, and currentsize changed by the new byte count
\* minus the old one.
AddtileReplaces ==
    [][/\ last'.op = "addtile"
       /\ ~last'.purge
       /\ last'.tile \in DOMAIN tileset(cache, last'.key)
       => \A pos \in {LastPos(last')}, before \in {Positions(cache)} :
                \A old \in {EntryAt(cache, pos)}, new \in {EntryAt(cache', pos)} :
                    /\ Positions(cache') = before
                    /\ KeydCount(cache'[pos[1]][pos[2]], pos[3]) = 1
                    /\ new = [bcount |-> last'.bcount, time |-> now', replace |-> FALSE]
                    /\ new.time >= old.time
                    /\ currentsize' = currentsize + new.bcount - old.bcount
                    /\ \A q \in before \ {pos} : EntryAt(cache', q) = EntryAt(cache, q)]_vars

\* an addtile without purge pass has stored the only tile of a sizekey that
\* is not the newest sizekey of its page: the sizekey was there before the
\* call, so its tile held an entry, which the call replaced; the new entry is
\* later than another one of the page, and other pages hold entries
EntryReplaced ==
    /\ last.op = "addtile"
    /\ ~last.purge
    /\ LET pos == LastPos(last)
           keyd == cache[pos[1]][pos[2]]
       IN  /\ pos \in Positions(cache)
           /\ KeydPos(keyd, pos[3]) < Len(keyd)
           /\ DOMAIN tileset(cache, last.key) = {last.tile}
           /\ TilesOf(pos[3]) = {last.tile}
           /\ \E q \in Positions(cache) :
                q[1] = pos[1] /\ q[2] = pos[2] /\ EntryAt(cache, q).time < EntryAt(cache, pos).time
           /\ \E q \in Positions(cache) : q[1] # pos[1]

\* C13: addtile runs the purge pass exactly when currentsize less the byte
\* count of the entry it replaces is greater than maxsize; otherwise it
\* stores the entry, adds its byte count and removes nothing.  The purge pass
\* shows in currentsize being counted anew over the entries it leaves.
PurgeOnPriorOverflow ==
    [][last'.op = "addtile" =>
        \A pre \in {currentsize - OldBcount(cache, last'.key, last'.tile)},
           stored \in {StoredBy(cache, last', now')} :
            IF pre > maxsize
            THEN /\ last'.purge
                 /\ currentsize' = TotalBytes(cache')
                 /\ Positions(cache') \subseteq Positions(stored)
            ELSE /\ ~last'.purge
                 /\ cache' = stored
                 /\ currentsize' = pre + last'.bcount
                 /\ Positions(cache) \subseteq Positions(cache')]_vars

\* an addtile has taken currentsize from within maxsize to beyond it and
\* removed nothing: three entries are stored
OverflowWithoutPurge ==
    /\ last.op = "addtile"
    /\ ~last.purge
    /\ currentsize > maxsize
    /\ currentsize - last.bcount <= maxsize
    /\ last.bcount = 700
    /\ Cardinality(Positions(cache)) = 3

-----------------------------------------------------------------------------
(* the two buckets of the purge pass *)

\* the positions of a page
PagePositions(c, g, i) == {pos \in Positions(c) : pos[1] = g /\ pos[2] = i}

\* the positions whose sizekey has the least height of its page
SmallestHeightPositions(c) ==
    {pos \in Positions(c) :
        \A q \in PagePositions(c, pos[1], pos[2]) : pos[3][3] <= q[3][3]}

\* the positions whose sizekey has the least width of its page
SmallestWidthPositions(c) ==
    {pos \in Positions(c) :
        \A q \in PagePositions(c, pos[1], pos[2]) : pos[3][2] <= q[3][2]}

\* C14, as claimed: the purge pass puts the entries of the sizekey with the
\* smallest height of every page in the protected bucket and the entries of
\* all other sizekeys in the other one.
ProtectedIsSmallestHeight ==
    [][last'.op = "addtile" /\ last'.purge =>
        \A stored \in {StoredBy(cache, last', now')} :
        \A small \in {SmallestHeightPositions(stored)} :
            /\ {PosOf(it) : it \in FirstItems(stored)} = small
            /\ {PosOf(it) : it \in RestItems(stored)} = Positions(stored) \ small]_vars

\* C14, amended: the purge pass puts the entries of the sizekey with the
\* smallest width of every page in the protected bucket and the entries of
\* all other sizekeys in the other one, whatever their heights and rotations.
ProtectedIsSmallestWidth ==
    [][last'.op = "addtile" /\ last'.purge =>
        \A stored \in {StoredBy(cache, last', now')} :
        \A small \in {SmallestWidthPositions(stored)} :
            /\ {PosOf(it) : it \in FirstItems(stored)} = small
            /\ {PosOf(it) : it \in RestItems(stored)} = Positions(stored) \ small]_vars

\* a purge pass has deleted the entry the call stored for the turned
\* rendering, which has the least height of its page, and has kept the
\* entry of the rendering of the least width of that page
TurnedRenderingPurged ==
    /\ last.op = "addtile"
    /\ last.purge
    /\ SizeKeyOf(last.key) = <<1, 120, 80>>
    /\ LastPos(last) \notin Positions(cache)
    /\ <<last.key.group, last.key.ident, <<0, 80, 120>>, 1>> \in Positions(cache)

\* C15, as claimed: when addtile(key, tile, image) has returned, tileset(key)
\* maps tile to the entry created for image, whether or not the purge pass ran.
InsertedEntryStored ==
    last.op = "addtile" =>
        /\ last.tile \in DOMAIN tileset(cache, last.key)
        /\ tileset(cache, last.key)[last.tile] = ImageEntry(last.bcount, now)

-----------------------------------------------------------------------------
(* lookups after invalidate *)

\* the <<width, height>> of the sizekeys closest returns
ClosestSizes(c, key) ==
    LET ret == closest(c, key)
    IN  {<<ret[n][1], ret[n][2]>> : n \in 1..Len(ret)}

\* C16, as claimed: after invalidate, tileset returns the tiles it returned
\* before, and closest returns every sizekey it returned before.
StaleStillReturned ==
    [][last'.op = "invalidate" =>
        \A key \in LookupKeys :
            /\ DOMAIN tileset(cache', key) = DOMAIN tileset(cache, key)
            /\ ClosestSizes(cache, key) \subseteq ClosestSizes(cache', key)]_vars

\* C16, amended: after invalidate, tileset returns the tiles it returned
\* before, those of the invalidated pages flagged; closest returns nothing
\* for a key of an invalidated page, and for a key of another page what it
\* returned before.
StaleOnlyInTileset ==
    [][last'.op = "invalidate" =>
        \A called \in {{page \in Pages \cup {None} : cache' = invalidate(cache, page)}} :
        \A key \in LookupKeys :
        \A before \in {tileset(cache, key)}, after \in {tileset(cache', key)} :
            /\ DOMAIN after = DOMAIN before
            /\ \A page \in called :
                IF page = None \/ page = <<key.group, key.ident>>
                THEN /\ closest(cache', key) = <<>>
                     /\ \A t \in DOMAIN after : after[t] = [before[t] EXCEPT !.replace = TRUE]
                ELSE /\ closest(cache', key) = closest(cache, key)
                     /\ after = before]_vars

\* after an invalidate a page holds renderings of the rotation and of
\* another width than the ones asked for, all flagged: tileset returns them
\* and closest returns nothing, while closest does return a rendering of
\* another page
StaleLeftOutOfClosest ==
    /\ last.op = "invalidate"
    /\ \E key \in LookupKeys :
        /\ Candidates(cache, key) # {}
        /\ closest(cache, key) = <<>>
        /\ \A pos \in PagePositions(cache, key.group, key.ident) :
                EntryAt(cache, pos).replace
        /\ \E t \in DOMAIN tileset(cache, key) : tileset(cache, key)[t].replace
    /\ \E key \in LookupKeys : closest(cache, key) # <<>>

-----------------------------------------------------------------------------
(* the order within a bucket *)

\* C17: of the entries of one bucket, taken over all pages and groups, a purge
\* pass deletes none that is later than one it keeps.
NewestKeptInBucket ==
    [][last'.op = "addtile" /\ last'.purge =>
        \A stored \in {StoredBy(cache, last', now')} :
        \A first \in {FirstPositions(stored)}, kept \in {Positions(cache')} :
        \A gone \in {Positions(stored) \ kept} :
            \A e \in gone, k \in kept :
                (e \in first) = (k \in first) =>
                    EntryAt(stored, e).time <= EntryAt(stored, k).time]_vars

\* a purge pass has kept the entry the call stored, which is not of the
\* smallest rendering of its page, and an older entry of a smallest
\* rendering in another group, and has deleted entries that are not of a
\* smallest rendering and none that is
OlderOfBucketPurged ==
    /\ last.op = "addtile"
    /\ last.lostrest
    /\ ~last.lostfirst
    /\ LastPos(last) \in Positions(cache) \ FirstPositions(cache)
    /\ \E pos \in FirstPositions(cache) :
        pos[1] # last.key.group /\ EntryAt(cache, pos).time < now

-----------------------------------------------------------------------------
(* groups that are reclaimed *)

\* currentsize is not less than the bytes stored
SizeCoversStore == currentsize >= TotalBytes(cache)

\* a reclaimed group is absent for tileset, closest and invalidate; a purge
\* pass and clear leave currentsize the bytes stored
ReclaimStep ==
    /\ last'.op = "reclaim" =>
        /\ last'.group \notin DOMAIN cache'
        /\ currentsize' = currentsize
        /\ \A key \in LookupKeys :
            key.group = last'.group =>
                /\ tileset(cache', key) = EmptyDict
                /\ closest(cache', key) = <<>>
                /\ invalidate(cache', <<key.group, key.ident>>) = cache'
        /\ \A pos \in Positions(cache) :
            pos[1] # last'.group =>
                pos \in Positions(cache') /\ EntryAt(cache', pos) = EntryAt(cache, pos)
    /\ (last'.op = "addtile" /\ last'.purge) \/ last'.op = "clear" =>
        currentsize' = TotalBytes(cache')

\* C18: when groups are reclaimed, lookups of a reclaimed group find nothing,
\* currentsize is never less than the bytes stored, and every purge pass
\* and every clear leave currentsize the exact sum of the bytes stored.
ReclaimTolerated == []SizeCoversStore /\ [][ReclaimStep]_vars

\* an addtile has run the purge pass on a store that held nothing but the
\* entry it had just stored, because currentsize still counted the entries
\* of reclaimed groups; the pass deleted nothing and left currentsize the
\* byte count of that entry
PurgeAfterReclaim ==
    /\ last.op = "addtile"
    /\ last.purge
    /\ ~last.lostfirst
    /\ ~last.lostrest
    /\ Positions(cache) = {LastPos(last)}
    /\ currentsize = last.bcount

-----------------------------------------------------------------------------
(* the replace flag *)

\* no tileset closest returns holds a flagged entry
ClosestHasNoStale ==
    \A key \in LookupKeys :
        \A ret \in {closest(cache, key)} :
            \A n \in 1..Len(ret) : \A t \in DOMAIN ret[n][3] : ~ret[n][3][t].replace

\* the entry addtile stores is not flagged; an entry that stays where it is
\* keeps its flag, but that invalidate may set it
FlagStep ==
    cache' # cache /\ cache' # EmptyDict =>
    \A before \in {Positions(cache)}, after \in {Positions(cache')} :
        /\ \A pos \in after \ before : ~EntryAt(cache', pos).replace
        /\ \A pos \in after \cap before :
            \A old \in {EntryAt(cache, pos).replace}, new \in {EntryAt(cache', pos).replace} :
                IF last'.op = "addtile" /\ pos = LastPos(last') THEN ~new
                ELSE IF last'.op = "invalidate" THEN old => new
                ELSE new = old

\* C19: only invalidate sets the replace flag and nothing takes it off an
\* entry: the entry addtile stores is not flagged, and a flagged entry stays
\* flagged until addtile replaces it or it is removed; so closest returns no
\* sizekey as long as one of its tiles is a flagged entry.
FlagOnlySetByInvalidate == []ClosestHasNoStale /\ [][FlagStep]_vars

\* an addtile has replaced one tile of the rendering in two tiles, the other
\* tile is still flagged, and closest, asked for another width of that page,
\* does not return the rendering
HalfReplacedLeftOut ==
    /\ last.op = "addtile"
    /\ LastPos(last) \in Positions(cache)
    /\ \E t \in DOMAIN tileset(cache, last.key) :
        t # last.tile /\ tileset(cache, last.key)[t].replace
    /\ \E key \in LookupKeys :
        /\ key.group = last.key.group
        /\ key.ident = last.key.ident
        /\ key.rotation = last.key.rotation
        /\ key.width # last.key.width
        /\ <<last.key.width, last.key.height>> \notin ClosestSizes(cache, key)

-----------------------------------------------------------------------------
(* the range of currentsize *)

\* the largest value of image.byteCount()
MaxByteCount == 700

\* C20: after every operation currentsize is at least 0 and at most maxsize
\* plus the largest byte count of an image.
CurrentsizeInRange == 0 <= currentsize /\ currentsize <= maxsize + MaxByteCount

\* a purge pass has deleted entries and left currentsize beyond maxsize by
\* more than the smaller byte count: it kept an image of the largest byte
\* count as the one that took the count over maxsize
PurgeLeftOverMaxsize ==
    /\ last.op = "addtile"
    /\ last.purge
    /\ last.lostfirst \/ last.lostrest
    /\ currentsize > maxsize + 400
    /\ \E pos \in Positions(cache) : EntryAt(cache, pos).bcount = MaxByteCount

====
